---- MODULE Spec2Model ----
(***************************************************************************)
(* A model of the particle simulation of src/index.tsx: the event handlers *)
(* (shape select, hand-tracking results, mouse move, audio toggle) and the *)
(* animation frame (audio analysis, scale, ray hit test and pinch latch,   *)
(* integrator with spatial-grid insert, collision pass).                   *)
(*                                                                         *)
(* Numbers.  The program computes in floating point.  The model computes   *)
(* in fixed point: a length, a velocity or a scalar x is the integer       *)
(* x * UNIT (thousandths), and a product or quotient is rounded to the     *)
(* nearest thousandth (RDiv).  Rendering-only state (rotation, colours,    *)
(* star field, bloom, camera shake) is not modelled; the ray origin is the *)
(* camera at (0, 0, CAMERA_Z).                                             *)
(***************************************************************************)
EXTENDS Integers, Sequences, FiniteSets, TLC

UNIT == 10 * 100

\* ---- program constants (src/index.tsx lines 18-25), lengths in thousandths
COLLISION_RADIUS == 150
GRID_DIM == 60
GRID_OFFSET == 30000
CELL_SIZE == 1000
CAMERA_Z == 45

\* ---- bounds of the model
PARTICLE_COUNT == 10
MaxFrames == 3
MaxPhysicsFrames == 14
MaxAudioFrames == 7
MaxInputTime == 3
MaxPending == 1
MaxDampFrames == 300
\* frames of a quiet run
MaxQuietFrames == 60

Particles == 0 .. (PARTICLE_COUNT - 1)

\* ---- arithmetic helpers ------------------------------------------------
Abs(x) == IF x < 0 THEN -x ELSE x
Min(a, b) == IF a < b THEN a ELSE b

\* a / b rounded to the nearest integer (b > 0)
RDiv(a, b) == (2 * a + b) \div (2 * b)

RECURSIVE SqrtSearch(_, _, _)
SqrtSearch(n, lo, hi) ==
  IF lo >= hi THEN lo
  ELSE LET mid == (lo + hi + 1) \div 2
       IN IF mid * mid <= n THEN SqrtSearch(n, mid, hi)
          ELSE SqrtSearch(n, lo, mid - 1)

\* Math.sqrt on a non-negative integer, rounded down
ISqrt(n) == SqrtSearch(n, 0, Min(n, 46340))

\* THREE.MathUtils.lerp(x, y, t) = (1 - t) * x + t * y, with t = num / den
Lerp(x, y, num, den) == RDiv((den - num) * x + num * y, den)

\* Math.sin(x) for x in thousandths of a radian, 0 <= x <= 1280: the Taylor
\* polynomial x - x^3/6 + x^5/120 (error below 0.001 on that range)
Sin(x) ==
  LET x3 == RDiv(RDiv(x * x, UNIT) * x, UNIT)
      x5 == RDiv(RDiv(x3 * x, UNIT) * x, UNIT)
  IN x - RDiv(x3, 6) + RDiv(x5, 120)

VARIABLES
  currentShape,    \* let currentShape
  targetScale,     \* let targetScale
  currentScale,    \* let currentScale
  isHandDetected,  \* let isHandDetected
  handLandmarks,   \* let handLandmarks: sequence of hands
  isPinching,      \* let isPinching
  pinchTriggered,  \* let pinchTriggered
  mouse,           \* const mouse: <<x, y>> in thousandths of NDC
  isAudioActive,   \* let isAudioActive
  audioPending,    \* toggleAudio calls suspended at await getUserMedia
  bassFactor,      \* let bassFactor
  shockwave,       \* let shockwave
  time,            \* let time, in frames (time = 0.01 * frames)
  targets,         \* const targets: shape name -> field
  pos,             \* geometry.attributes.position
  velocities,      \* const velocities
  gridHead,        \* const gridHead: cell index -> particle; absent = -1
  gridNext,        \* const gridNext: particle -> particle or -1
  events,          \* number of showHackerData calls so far
  last             \* observations of the last frame (see Frame)

vars == << currentShape, targetScale, currentScale, isHandDetected,
           handLandmarks, isPinching, pinchTriggered, mouse, isAudioActive,
           audioPending, bassFactor, shockwave, time, targets, pos,
           velocities, gridHead, gridNext, events, last >>

\* ---- shapes -------------------------------------------------------------
\* the names generateShapes() fills in
ShapeNames == { "earth", "heart", "flower", "saturn", "buddha", "galaxy",
                "dna", "cube", "mobius" }

\* the field used when targets[currentShape] is undefined (line 792)
Field(tg, shape) == IF shape \in DOMAIN tg THEN tg[shape] ELSE tg["heart"]

\* ---- initial particle layouts ------------------------------------------
\* generateShapes() draws the fields with Math.random and trigonometry and
\* the start positions uniformly from [-25, 25); a layout is one outcome.
\* A layout gives the start positions and a base field; the field of the
\* k-th shape is the base field rotated by k particles.
ShapeIndex(s) ==
  CASE s = "earth" -> 0 [] s = "heart" -> 1 [] s = "flower" -> 2
    [] s = "saturn" -> 3 [] s = "buddha" -> 4 [] s = "galaxy" -> 5
    [] s = "dna" -> 6 [] s = "cube" -> 7 [] OTHER -> 8

Z3 == << 0, 0, 0 >>

\* all particles in the cell [0,1) x [0,1) x [0,1), neighbours 0.08 apart
ClusterAt(i) == << 60 + 80 * i, 500, 500 >>
\* a line of particles 0.4 apart: no two within COLLISION_RADIUS
SpreadAt(i) == << 400 * i - 2000, 250, 250 >>
\* lattice points 8 apart
LatticeAt(i) == << 8000 * ((i % 3) - 1), 8000 * (((i \div 3) % 3) - 1),
                   8000 * (((i \div 9) % 3) - 1) + 4000 >>
\* every other particle on a ring of radius 24.9 .. 29 (saturn's ring
\* reaches 29), the rest near the centre
RingAt(i) == IF i % 2 = 0 THEN << 24900, 100 * i, 0 >>
             ELSE << 0 - 500, 0, 100 * i >>
RingTargetAt(i) == IF i % 2 = 0 THEN << 29000, 100 * i, 0 >>
                   ELSE << 0 - 500, 0, 100 * i >>

\* particles 0 and 1 overlap just below the cell boundary x = 1, particle 2
\* is just above it; particles 3 and 4 coincide; the rest are far apart
EdgeAt(i) ==
  CASE i = 0 -> << 900, 500, 500 >>
    [] i = 1 -> << 990, 500, 500 >>
    [] i = 2 -> << 1100, 500, 500 >>
    [] i \in { 3, 4 } -> << 5500, 5500, 5500 >>
    [] OTHER -> << 400 * i, 0 - 3000, 250 >>

Cluster == [ start |-> [i \in Particles |-> ClusterAt(i)],
             base  |-> [i \in Particles |-> ClusterAt(i)] ]
Spread == [ start |-> [i \in Particles |-> SpreadAt(i)],
            base  |-> [i \in Particles |-> SpreadAt(i)] ]
Origin == [ start |-> [i \in Particles |-> Z3],
            base  |-> [i \in Particles |-> LatticeAt(i)] ]
Ring == [ start |-> [i \in Particles |-> RingAt(i)],
          base  |-> [i \in Particles |-> RingTargetAt(i)] ]

Edge == [ start |-> [i \in Particles |-> EdgeAt(i)],
          base  |-> [i \in Particles |-> EdgeAt(i)] ]

Layouts == { Cluster, Spread, Origin, Ring, Edge }

\* generateShapes(): one field per shape name
GenerateShapes(layout) ==
  [s \in ShapeNames |->
     [i \in Particles |->
        layout.base[(i + ShapeIndex(s)) % PARTICLE_COUNT]]]

NoFrame ==
  [ ran |-> FALSE, hit |-> FALSE, pinch |-> FALSE, fired |-> FALSE,
    run |-> 0, shock0 |-> 0, es |-> UNIT, shape |-> "earth",
    detected |-> FALSE, mouse |-> << 0, 0 >>, quiet |-> TRUE,
    posStart |-> [i \in Particles |-> Z3],
    posInt |-> [i \in Particles |-> Z3],
    ptr |-> [i \in Particles |-> Z3],
    jit |-> [i \in Particles |-> Z3],
    tgt |-> [i \in Particles |-> Z3], steady |-> 0,
    checks |-> [i \in Particles |-> 0],
    pairs |-> {}, fixes |-> {}, moves |-> {} ]

\* the state after init(), before the first frame, for the layouts of L
InitWith(L) ==
  /\ currentShape = "earth"
  /\ targetScale = UNIT
  /\ currentScale = UNIT
  /\ isHandDetected = FALSE
  /\ handLandmarks = << >>
  /\ isPinching = FALSE
  /\ pinchTriggered = FALSE
  /\ mouse = << 0 - 9999 * UNIT, 0 - 9999 * UNIT >>
  /\ isAudioActive = FALSE
  /\ audioPending = 0
  /\ bassFactor = 0
  /\ shockwave = 0
  /\ time = 0
  /\ \E layout \in L :
       /\ targets = GenerateShapes(layout)
       /\ pos = layout.start
  /\ velocities = [i \in Particles |-> Z3]
  /\ gridHead = [ fill |-> 0, at |-> << >> ]
  /\ gridNext = [i \in Particles |-> 0]
  /\ events = 0
  /\ last = NoFrame

Init == InitWith({ Cluster, Spread })

\* ---- event handlers ----------------------------------------------------
\* a listener that also regenerates the fields
RegenShapeChange(value) ==
  /\ currentShape' = value
  /\ targets' = GenerateShapes(Ring)
  /\ UNCHANGED << targetScale, currentScale, isHandDetected, handLandmarks,
                  isPinching, pinchTriggered, mouse, isAudioActive,
                  audioPending, bassFactor, shockwave, time, pos,
                  velocities, gridHead, gridNext, events, last >>

\* shapeSelect 'change' listener (setupUI)
ShapeChange(value) ==
  /\ currentShape' = value
  /\ UNCHANGED << targetScale, currentScale, isHandDetected, handLandmarks,
                  isPinching, pinchTriggered, mouse, isAudioActive,
                  audioPending, bassFactor, shockwave, time, targets, pos,
                  velocities, gridHead, gridNext, events, last >>

\* document 'mousemove' listener (initInputListeners); fx, fy are
\* clientX / innerWidth and clientY / innerHeight
MouseMove(fx, fy) ==
  /\ mouse' = IF ~isHandDetected THEN << fx * 2 - UNIT, UNIT - fy * 2 >>
              ELSE mouse
  /\ UNCHANGED << currentShape, targetScale, currentScale, isHandDetected,
                  handLandmarks, isPinching, pinchTriggered, isAudioActive,
                  audioPending, bassFactor, shockwave, time, targets, pos,
                  velocities, gridHead, gridNext, events, last >>

\* Math.sqrt(dx*dx + dy*dy) of two landmarks
LandmarkDist(a, b) ==
  ISqrt((a[1] - b[1]) * (a[1] - b[1]) + (a[2] - b[2]) * (a[2] - b[2]))

\* THREE.MathUtils.mapLinear(d, 0.1, 0.8, 0.5, 4.0)
MapZoom(d) == 500 + RDiv((d - 100) * 3500, 700)

\* hands.onResults callback; results = results.multiHandLandmarks, a
\* sequence of hands, each [index, thumb, palm] (landmarks 8, 4, 9)
HandResults(results) ==
  LET detected == Len(results) > 0
      hand == results[1]
      earth == currentShape = "earth"
  IN
  /\ isHandDetected' = detected
  /\ handLandmarks' = results
  /\ mouse' = IF ~detected THEN mouse
              ELSE IF earth
                   THEN << (UNIT - hand.index[1]) * 2 - UNIT,
                           UNIT - hand.index[2] * 2 >>
                   ELSE << 0 - 999 * UNIT, 0 - 999 * UNIT >>
  /\ isPinching' = IF ~detected THEN FALSE
                   ELSE IF earth
                        THEN LandmarkDist(hand.thumb, hand.index) < 50
                        ELSE isPinching
  /\ targetScale' = IF detected /\ Len(results) = 2
                    THEN MapZoom(LandmarkDist(results[1].index,
                                              results[2].index))
                    ELSE targetScale
  /\ UNCHANGED << currentShape, currentScale, pinchTriggered, isAudioActive,
                  audioPending, bassFactor, shockwave, time, targets, pos,
                  velocities, gridHead, gridNext, events, last >>

\* toggleAudio(): while audio is active, switch it off; while inactive, run
\* up to `await getUserMedia`
ToggleAudio ==
  /\ IF isAudioActive
     THEN /\ isAudioActive' = FALSE
          /\ bassFactor' = 0
          /\ UNCHANGED audioPending
     ELSE /\ audioPending < MaxPending
          /\ audioPending' = audioPending + 1
          /\ UNCHANGED << isAudioActive, bassFactor >>
  /\ UNCHANGED << currentShape, targetScale, currentScale, isHandDetected,
                  handLandmarks, isPinching, pinchTriggered, mouse,
                  shockwave, time, targets, pos, velocities, gridHead,
                  gridNext, events, last >>

\* toggleAudio() resumed after getUserMedia: the stream (granted) or the
\* catch branch
AudioResume(granted) ==
  /\ audioPending > 0
  /\ audioPending' = audioPending - 1
  /\ isAudioActive' = IF granted THEN TRUE ELSE isAudioActive
  /\ UNCHANGED << currentShape, targetScale, currentScale, isHandDetected,
                  handLandmarks, isPinching, pinchTriggered, mouse,
                  bassFactor, shockwave, time, targets, pos, velocities,
                  gridHead, gridNext, events, last >>

\* ---- animate(): audio ---------------------------------------------------
\* a shockwave that grows by 5% a frame instead of decaying
GrowShockwave(s) == RDiv(s * 105, 100)

\* shockwave *= 0.95 (line 752)
DecayShockwave(s) == RDiv(s * 95, 100)

\* a target normalised by half the byte range
HalfRangeBass(lowAvg) == RDiv(lowAvg * UNIT, 128)

\* const targetBass = lowAvg / 255.0 (line 297)
TargetBass(lowAvg) == RDiv(lowAvg * UNIT, 255)

\* bassFactor > 0.8 (line 300)
BassKick(bass) == bass > 800

\* shockwave = Math.min(shockwave + 0.1, 2.0) (line 301)
KickShockwave(s) == Min(s + 100, 2 * UNIT)

\* updateAudioAnalysis(): lowAvg is the mean of the low bins of the byte
\* spectrum.  The result is the pair (bassFactor, shockwave).
UpdateAudioAnalysis(active, bass, shock, lowAvg) ==
  IF ~active
  THEN [ bass |-> RDiv(bass * 95, 100), shock |-> shock ]
  ELSE LET b == Lerp(bass, TargetBass(lowAvg), 3, 10)
       IN [ bass |-> b,
            shock |-> IF BassKick(b) THEN KickShockwave(shock) ELSE shock ]

\* ---- animate(): scale ---------------------------------------------------
\* const breathe = 1.0 + Math.sin(time * 0.8) * 0.1, time = 0.01 * t
Breathe(t) == UNIT + RDiv(Sin(8 * t), 10)

NextScale(cs, ts, detected, t) ==
  IF ~detected THEN Lerp(cs, Breathe(t), 5, 100) ELSE Lerp(cs, ts, 1, 10)

\* effectiveScale (lines 756, 763): the scale before this frame's update
EffectiveScale(cs, bass, shock) == cs + RDiv(bass, 2) + RDiv(shock, 2)

\* ---- animate(): ray ------------------------------------------------------
\* tan(fov / 2) for the camera's fov of 75 degrees, in thousandths
TAN_HALF_FOV == 767
\* the window's aspect ratio (1:1)
Aspect == UNIT

\* half extent, in thousandths, of the plane z = 0 as seen by the camera
HalfH == CAMERA_Z * TAN_HALF_FOV
HalfW == RDiv(HalfH * Aspect, UNIT)

\* m * h / UNIT without overflow for a sentinel m
Scaled(m, h) == (m \div UNIT) * h + RDiv((m % UNIT) * h, UNIT)

\* interactPoint (lines 813-814): the ray's point on the plane z = 0
InteractPoint(m) == << Scaled(m[1], HalfW), Scaled(m[2], HalfH), 0 >>

\* raycaster.ray.origin, in whole units
RayOrigin == << 0, 0, CAMERA_Z >>

\* raycaster.ray.direction as the hit test reads it, in whole units.  Line
\* 814 calls direction.multiplyScalar(distanceToPlane), which scales the
\* ray's own direction vector in place: from then on it is the vector from
\* the origin to interactPoint, not a unit vector.
RayDir(m) ==
  LET ip == InteractPoint(m)
  IN << RDiv(ip[1], UNIT) - RayOrigin[1], RDiv(ip[2], UNIT) - RayOrigin[2],
        0 - RayOrigin[3] >>

Dot(a, b) == a[1] * b[1] + a[2] * b[2] + a[3] * b[3]

\* sphereRadius = 14 * effectiveScale, in hundredths
SphereRadius(es) == (14 * es) \div 10

\* lines 826-830: b = 2 * (rayDir . rayOrigin), c = |rayOrigin|^2 - r^2,
\* delta = b*b - 4*c > 0.  b is a whole number, so b*b > 4*c is decided on
\* 4*c rounded down.
HitTest(dir, origin, es) ==
  LET b == 2 * Dot(dir, origin)
      r == SphereRadius(es)
      c4 == 4 * (Dot(origin, origin) * 10000 - r * r)
  IN b * b > c4 \div 10000

\* lines 817-847: the result is (pinchTriggered, shockwave, fired)
PinchLatch(shape, detected, hit, pinching, latch, shock) ==
  IF shape = "earth" /\ detected
  THEN IF hit
       THEN IF pinching
            THEN IF ~latch
                 THEN [ latch |-> TRUE, shock |-> 500, fired |-> TRUE ]
                 ELSE [ latch |-> latch, shock |-> shock, fired |-> FALSE ]
            ELSE [ latch |-> FALSE, shock |-> shock, fired |-> FALSE ]
       ELSE [ latch |-> FALSE, shock |-> shock, fired |-> FALSE ]
  ELSE [ latch |-> latch, shock |-> shock, fired |-> FALSE ]

\* ---- animate(): integrator (lines 850-915) ------------------------------
\* const scanH = Math.sin(time * 2) * 15 * effectiveScale
ScanH(t, es) == RDiv(Sin(20 * t) * 15 * es, UNIT)

\* target of particle i: the field's point scaled, plus the earth scan
\* jitter; scan = << Math.random() - 0.5, Math.random() - 0.5 >>
TargetOf(tp, es, shape, t, py, scan) ==
  LET tx == RDiv(tp[1] * es, UNIT)
      ty == RDiv(tp[2] * es, UNIT)
      tz == RDiv(tp[3] * es, UNIT)
      inScan == shape = "earth" /\ Abs(py - ScanH(t, es)) < UNIT
  IN IF inScan
     THEN << tx + RDiv(scan[1] * 5, 10), ty, tz + RDiv(scan[2] * 5, 10) >>
     ELSE << tx, ty, tz >>

\* a spring ten times as stiff, k = 0.3
StiffSpring(target, p) ==
  << RDiv((target[1] - p[1]) * 3, 10), RDiv((target[2] - p[2]) * 3, 10),
     RDiv((target[3] - p[3]) * 3, 10) >>

\* A. spring force, k = 0.03
SpringForce(target, p) ==
  << RDiv((target[1] - p[1]) * 3, 100), RDiv((target[2] - p[2]) * 3, 100),
     RDiv((target[3] - p[3]) * 3, 100) >>

\* distSq < 150, decided without squaring a distance beyond 12.248
Near(dx, dy) ==
  /\ Abs(dx) < 12248
  /\ Abs(dy) < 12248
  /\ dx * dx + dy * dy < 150 * UNIT * UNIT

Clamp1(x) == IF x > UNIT THEN UNIT ELSE IF x < 0 - UNIT THEN 0 - UNIT ELSE x

\* a / b rounded toward zero (b > 0)
Toward0(a, b) == IF a >= 0 THEN a \div b ELSE 0 - ((0 - a) \div b)

\* Math.sqrt(q) in hundredths of the model's unit, rounded up, as fine as
\* the integer range allows
DistUp(q) ==
  IF q = 0 THEN 0
  ELSE IF q < 200000 THEN ISqrt(q * 10000 - 1) + 1
  ELSE IF q < 20000000 THEN (ISqrt(q * 100 - 1) + 1) * 10
  ELSE (ISqrt(q - 1) + 1) * 100

\* Math.cos(Math.atan2(dy, dx)) and Math.sin(Math.atan2(dy, dx)), with
\* dist = DistUp(dx*dx + dy*dy); Math.atan2(0, 0) is 0.  Rounded toward
\* zero, so that the direction is never longer than a unit vector.
CosAtan2(dy, dx, dist) ==
  IF dist = 0 THEN UNIT ELSE Clamp1(Toward0(dx * 100 * UNIT, dist))
SinAtan2(dy, dx, dist) ==
  IF dist = 0 THEN 0 ELSE Clamp1(Toward0(dy * 100 * UNIT, dist))

\* a guard that does not look at the shape
PointerAnyShape(shape, m, dx, dy) == Near(dx, dy) /\ m[1] > 0 - 100 * UNIT

\* the guard of line 886
PointerApplies(shape, m, dx, dy) ==
  shape # "earth" /\ Near(dx, dy) /\ m[1] > 0 - 100 * UNIT

\* B. mouse repulsion (lines 880-895)
PointerForce(shape, m, ip, p) ==
  LET dx == p[1] - ip[1]
      dy == p[2] - ip[2]
  IN IF PointerApplies(shape, m, dx, dy)
     THEN LET dist == ISqrt(dx * dx + dy * dy)
              force == RDiv((12 * UNIT - dist) * UNIT, 12 * UNIT)
              strength == RDiv(12 * force, 10)
              up == DistUp(dx * dx + dy * dy)
          IN IF force > 0
             THEN << Toward0(CosAtan2(dy, dx, up) * strength, UNIT),
                     Toward0(SinAtan2(dy, dx, up) * strength, UNIT), 0 >>
             ELSE Z3
     ELSE Z3

\* a jitter for any shockwave above zero
JitterAlways(shock) == shock > 0

\* shockwave > 0.1 (line 899)
JitterOn(shock) == shock > 100

\* C. audio jitter; r = the three values Math.random() - 0.5
AudioJitter(shock, r) ==
  IF JitterOn(shock)
  THEN << RDiv(r[1] * shock * 2, UNIT), RDiv(r[2] * shock * 2, UNIT),
          RDiv(r[3] * shock * 2, UNIT) >>
  ELSE Z3

\* velocities[i] += f + r + a; velocities[i] *= 0.92 (lines 905-911)
NextVelocity(v, f, r, a) ==
  << RDiv((v[1] + f[1] + r[1] + a[1]) * 92, 100),
     RDiv((v[2] + f[2] + r[2] + a[2]) * 92, 100),
     RDiv((v[3] + f[3] + r[3] + a[3]) * 92, 100) >>

\* posAttr.array[i] += velocities[i] (lines 913-915)
NextPosition(p, v) == << p[1] + v[1], p[2] + v[2], p[3] + v[3] >>

\* ---- animate(): spatial grid (lines 787, 917-930) -----------------------
physicsEnabled == TRUE

\* Math.floor((x + GRID_OFFSET) / CELL_SIZE)
GridCoord(x) == (x + GRID_OFFSET) \div CELL_SIZE

InDomain(p) ==
  \A k \in 1 .. 3 : GridCoord(p[k]) >= 0 /\ GridCoord(p[k]) < GRID_DIM

CellIndex(p) ==
  GridCoord(p[1]) + GridCoord(p[2]) * GRID_DIM
    + GridCoord(p[3]) * GRID_DIM * GRID_DIM

\* gridHead[c]
HeadAt(gh, c) == IF c \in DOMAIN gh.at THEN gh.at[c] ELSE gh.fill

\* a grid that keeps the heads of the frame before
StaleGrid == gridHead

\* gridHead.fill(-1)
ClearGrid == [ fill |-> 0 - 1, at |-> << >> ]

\* an insert without the domain test
GridInsertAny(g, i, p) ==
  LET c == CellIndex(p)
  IN [ head |-> [ fill |-> g.head.fill,
                  at |-> [ d \in DOMAIN g.head.at \cup {c} |->
                             IF d = c THEN i ELSE g.head.at[d] ] ],
       next |-> [ g.next EXCEPT ![i] = HeadAt(g.head, c) ] ]

\* the insert of particle i at its new position p (lines 918-930)
GridInsert(g, i, p) ==
  IF ~physicsEnabled THEN g
  ELSE IF InDomain(p)
  THEN LET c == CellIndex(p)
       IN [ head |-> [ fill |-> g.head.fill,
                       at |-> [ d \in DOMAIN g.head.at \cup {c} |->
                                  IF d = c THEN i ELSE g.head.at[d] ] ],
            next |-> [ g.next EXCEPT ![i] = HeadAt(g.head, c) ] ]
  ELSE [ head |-> g.head, next |-> [ g.next EXCEPT ![i] = 0 - 1 ] ]

\* the inserts of particles i .. PARTICLE_COUNT - 1, in index order
RECURSIVE BuildGrid(_, _, _)
BuildGrid(g, i, p) ==
  IF i >= PARTICLE_COUNT THEN g
  ELSE BuildGrid(GridInsert(g, i, p[i]), i + 1, p)

\* ---- animate(): collision pass (lines 934-993) --------------------------
\* const minSq = COLLISION_RADIUS * COLLISION_RADIUS
MinSq == COLLISION_RADIUS * COLLISION_RADIUS

\* a test with three times the radius
WideOverlaps(d2) == d2 > 0 /\ d2 < 9 * MinSq

\* a test that lets a distance of zero through
OverlapsOrCoincides(d2) == d2 < MinSq

\* d2 > 0 && d2 < minSq (line 966)
Overlaps(d2) == d2 > 0 /\ d2 < MinSq

\* a walk to the end of the list
WalkAll(neighbor, checks) == neighbor # 0 - 1

\* while (neighbor !== -1 && checks < 8) (line 954)
WalkOn(neighbor, checks) == neighbor # 0 - 1 /\ checks < 8

\* the model's NaN: a coordinate that has received it is, as NaN is in the
\* program, outside the grid domain
NaN == 0 - 100 * 1000 * UNIT

\* lines 967-977: the correction << sx, sy, sz >> of a pair at offset d;
\* dist is kept in units of 1e-5.  With dist = 0 the normals dx / dist are
\* 0 / 0, which is NaN.
Correction(d, d2) ==
  LET dist == ISqrt(d2 * 10000)
      penetration == COLLISION_RADIUS * 100 - dist
  IN IF dist = 0 THEN << NaN, NaN, NaN >>
     ELSE << RDiv(d[1] * penetration, 2 * dist),
             RDiv(d[2] * penetration, 2 * dist),
             RDiv(d[3] * penetration, 2 * dist) >>

\* lines 979-985: particle i moves by s, the neighbour n by -s
ApplyCorrection(p, i, n, s) ==
  [ p EXCEPT ![i] = << p[i][1] + s[1], p[i][2] + s[2], p[i][3] + s[3] >>,
             ![n] = << p[n][1] - s[1], p[n][2] - s[2], p[n][3] - s[3] >> ]

\* the walk of particle i (read at pi) along the list of cell c, from
\* `neighbor` on.  st = [p, checks, pairs, fixes, moves]: the positions, and
\* what the pass did: entries visited per particle, the pairs compared (with
\* the cell walked), the corrections applied, and each correction with the
\* offset p[i] - p[neighbor] the two particles had when it was applied.
RECURSIVE Walk(_, _, _, _, _, _, _)
Walk(st, i, pi, c, neighbor, checks, next) ==
  IF ~WalkOn(neighbor, checks)
  THEN [ st EXCEPT !.checks[i] = checks ]
  ELSE
    LET d == << pi[1] - st.p[neighbor][1], pi[2] - st.p[neighbor][2],
                pi[3] - st.p[neighbor][3] >>
        d2 == Dot(d, d)
        s == Correction(d, d2)
        st1 == IF neighbor = i THEN st
               ELSE IF Overlaps(d2)
               THEN [ st EXCEPT !.p = ApplyCorrection(st.p, i, neighbor, s),
                                !.pairs = @ \cup { << i, neighbor, c >> },
                                !.fixes = @ \cup { << i, neighbor, s >> },
                                !.moves = @ \cup
                                  { << i, neighbor, s,
                                       << st.p[i][1] - st.p[neighbor][1],
                                          st.p[i][2] - st.p[neighbor][2],
                                          st.p[i][3] - st.p[neighbor][3] >> >> } ]
               ELSE [ st EXCEPT !.pairs = @ \cup { << i, neighbor, c >> } ]
    IN Walk(st1, i, pi, c, next[neighbor], checks + 1, next)

\* the turns of particles i .. PARTICLE_COUNT - 1
RECURSIVE Collide(_, _, _, _)
Collide(st, i, head, next) ==
  IF i >= PARTICLE_COUNT THEN st
  ELSE LET pi == st.p[i]
       IN IF InDomain(pi)
          THEN Collide(Walk(st, i, pi, CellIndex(pi),
                            HeadAt(head, CellIndex(pi)), 0, next),
                       i + 1, head, next)
          ELSE Collide(st, i + 1, head, next)

CollisionPass(p, head, next) ==
  LET st0 == [ p |-> p, checks |-> [i \in Particles |-> 0],
               pairs |-> {}, fixes |-> {}, moves |-> {} ]
  IN IF physicsEnabled THEN Collide(st0, 0, head, next) ELSE st0

\* ---- animate(): one frame -----------------------------------------------
\* lowAvg: the mean low-band byte the analyser delivers this frame.
\* rnd: this frame's Math.random() - 0.5 values, rnd.jit[i] for the audio
\* jitter of particle i and rnd.scan[i] for its scan-line jitter.
\* `last` records what the frame did:
\*   shape, detected, mouse, pinch  the inputs as the frame read them
\*   ran, hit, fired   the hit-test block ran, delta > 0, showHackerData
\*   run               calls of showHackerData in the current run of
\*                     consecutive frames with a hit and isPinching
\*   shock0, es        shockwave at the start of the frame, effectiveScale
\*   quiet             no bass kick this frame
\*   posStart, posInt  positions before the frame and after the integrator
\*   ptr, jit, tgt     pointer force, audio jitter and target of each particle
\*   steady            frames so far of a run that began with every particle
\*                     at rest at the origin and in which the scale was
\*                     constant (a hand holds currentScale at targetScale,
\*                     no bass, no shockwave), the targets stayed the same
\*                     and nothing but the spring force acted
\*   checks, pairs, fixes, moves   see Walk
\* Each intermediate value of the frame is bound once, in program order.
Frame(lowAvg, rnd) ==
  \E au \in { UpdateAudioAnalysis(isAudioActive, bassFactor,
                                  DecayShockwave(shockwave), lowAvg) } :
  \E es \in { EffectiveScale(currentScale, au.bass, au.shock) } :
  \E pl \in { PinchLatch(currentShape, isHandDetected,
                         HitTest(RayDir(mouse), RayOrigin, es), isPinching,
                         pinchTriggered, au.shock) } :
  \E ptr \in { [i \in Particles |->
                 PointerForce(currentShape, mouse, InteractPoint(mouse), pos[i])] } :
  \E jit \in { [i \in Particles |-> AudioJitter(pl.shock, rnd.jit[i])] } :
  \E tg \in { [i \in Particles |->
               TargetOf(Field(targets, currentShape)[i], es, currentShape,
                        time + 1, pos[i][2], rnd.scan[i])] } :
  \E v1 \in { [i \in Particles |->
               NextVelocity(velocities[i], SpringForce(tg[i], pos[i]),
                            ptr[i], jit[i])] } :
  \E p1 \in { [i \in Particles |-> NextPosition(pos[i], v1[i])] } :
  \E g \in { BuildGrid([ head |-> ClearGrid, next |-> gridNext ], 0, p1) } :
  \E col \in { CollisionPass(p1, g.head, g.next) } :
  LET t1 == time + 1
      ran == currentShape = "earth" /\ isHandDetected
      hit == HitTest(RayDir(mouse), RayOrigin, es)
      both == ran /\ hit /\ isPinching
      before == IF last.ran /\ last.hit /\ last.pinch THEN last.run ELSE 0
      atRest == \A i \in Particles : pos[i] = Z3 /\ velocities[i] = Z3
      constScale == /\ isHandDetected /\ currentScale = targetScale
                    /\ au.bass = 0 /\ pl.shock = 0
      springOnly == /\ \A i \in Particles : ptr[i] = Z3 /\ jit[i] = Z3
                    /\ col.fixes = {}
  IN
  /\ time' = t1
  /\ bassFactor' = au.bass
  /\ shockwave' = pl.shock
  /\ currentScale' = NextScale(currentScale, targetScale, isHandDetected, t1)
  /\ pinchTriggered' = pl.latch
  /\ events' = IF pl.fired THEN events + 1 ELSE events
  /\ velocities' = v1
  /\ pos' = col.p
  /\ gridHead' = g.head
  /\ gridNext' = g.next
  /\ last' = [ ran |-> ran, hit |-> ran /\ hit, pinch |-> isPinching,
               fired |-> pl.fired,
               run |-> IF both
                       THEN before + (IF pl.fired THEN 1 ELSE 0)
                       ELSE 0,
               shock0 |-> shockwave, es |-> es, shape |-> currentShape,
               detected |-> isHandDetected, mouse |-> mouse,
               quiet |-> ~(isAudioActive /\ BassKick(au.bass)),
               posStart |-> pos, posInt |-> p1, ptr |-> ptr, jit |-> jit,
               tgt |-> tg,
               steady |-> IF ~(constScale /\ springOnly) THEN 0
                          ELSE IF atRest THEN 1
                          ELSE IF last.steady > 0 /\ last.tgt = tg
                               THEN last.steady + 1
                               ELSE 0,
               checks |-> col.checks, pairs |-> col.pairs,
               fixes |-> col.fixes, moves |-> col.moves ]
  /\ UNCHANGED << currentShape, targetScale, isHandDetected, handLandmarks,
                  isPinching, mouse, isAudioActive, audioPending, targets >>

\* ---- inputs --------------------------------------------------------------
\* hands as MediaPipe reports them, coordinates in thousandths of the image
OpenHand == [ index |-> << 500, 500 >>, thumb |-> << 300, 500 >> ]
PinchHand == [ index |-> << 500, 500 >>, thumb |-> << 520, 500 >> ]
CornerPinch == [ index |-> << 0, 0 >>, thumb |-> << 20, 10 >> ]
LeftHand == [ index |-> << 100, 500 >>, thumb |-> << 100, 700 >> ]
RightHand == [ index |-> << 900, 500 >>, thumb |-> << 900, 700 >> ]

HandInputs == { << >>, << OpenHand >>, << PinchHand >>, << CornerPinch >> }
ZoomInputs == { << >>, << OpenHand >>, << LeftHand, RightHand >> }

\* values the shape selector delivers; "torus" is no generated shape
SelectValues == { "earth", "heart", "torus" }

\* Math.random() - 0.5 for every particle: all 0, or alternating extremes
CalmDraw == [ jit |-> [i \in Particles |-> Z3],
              scan |-> [i \in Particles |-> << 0, 0 >>] ]
WildDraw == [ jit |-> [i \in Particles |->
                         IF i % 2 = 0 THEN << 400, 0 - 500, 250 >>
                         ELSE << 0 - 500, 499, 0 - 100 >>],
              scan |-> [i \in Particles |->
                          IF i % 2 = 0 THEN << 499, 0 - 500 >>
                          ELSE << 0 - 250, 100 >>] ]
Draws == { CalmDraw, WildDraw }

\* mean low-band bytes: silence and a full-scale bass
Levels == { 0, 255 }

\* ---- specification: interaction (handlers and frames interleaved) -------
FrameStep == time < MaxFrames /\ \E rnd \in Draws : Frame(0, rnd)

Next ==
  \/ \E v \in SelectValues : ShapeChange(v)
  \/ \E r \in HandInputs : HandResults(r)
  \/ FrameStep

Spec == Init /\ [][Next]_vars

\* ---- claims checked under Spec ------------------------------------------
\* the last frame performed the hit test, it succeeded, and it read
\* isPinching asserted
HeldHit == last.ran /\ last.hit /\ last.pinch

\* C1 (as claimed): every run of consecutive frames in which the hit test
\* succeeds and isPinching is asserted emits exactly one acquisition event
\* (showHackerData): after each frame of such a run, the run has emitted
\* one event, never none and never one per frame.
C1_OneEventPerHold == HeldHit => last.run = 1

\* C2 (as claimed): after a frame that read the activation signal clear, or
\* whose hit test failed, the latch pinchTriggered is false.
C2_LatchReleased ==
  (time > 0 /\ (~last.pinch \/ (last.ran /\ ~last.hit))) => ~pinchTriggered

\* C5 (as claimed): a shape-switch command never makes a name outside the
\* generated fields the active shape: such a command leaves currentShape
\* unchanged.
C5_UnknownShapeRejected ==
  [][currentShape' # currentShape => currentShape' \in DOMAIN targets]_vars

\* The pointer ray of mouse m meets the sphere of radius 14 * es about the
\* origin: with o the camera position and d the ray's unit direction,
\* (2 d.o)^2 - 4 (|o|^2 - r^2) > 0.  With any vector e along d this is
\* (e.o)^2 > (|o|^2 - r^2) |e|^2; e is the ray direction in whole units (a
\* sentinel pointer's in units of 10000), and |o|^2 - r^2 is taken in
\* hundredths, rounded down.
RayMeetsSphere(m, es) ==
  LET v == RayDir(m)
      far == Abs(v[1]) > 1000 \/ Abs(v[2]) > 1000
      e == IF far
           THEN << RDiv(v[1], 10000), RDiv(v[2], 10000), RDiv(v[3], 10000) >>
           ELSE v
      r == SphereRadius(es)
      c == (Dot(RayOrigin, RayOrigin) * 10000 - r * r) \div 100
      eo == Dot(e, RayOrigin)
  IN IF c < 0 THEN TRUE
     ELSE eo * eo > (c * Dot(e, e)) \div 100

\* C7 (as claimed): a frame that performs the hit test (earth, hand
\* detected) registers a hit if and only if the pointer ray meets the
\* sphere of radius 14 * effectiveScale.
C7_HitIffRayMeetsSphere ==
  last.ran => (last.hit <=> RayMeetsSphere(last.mouse, last.es))

\* ---- specification: audio (toggles, bass samples, pinches, frames) ------
InitAudio == InitWith({ Spread })

PinchInputs == { << OpenHand >>, << PinchHand >> }

AudioFrameStep ==
  time < MaxAudioFrames /\ \E lowAvg \in Levels : Frame(lowAvg, CalmDraw)

\* the inputs of this specification arrive during its first frames
AudioInputs ==
  /\ time < MaxInputTime
  /\ \/ ToggleAudio
     \/ \E granted \in BOOLEAN : AudioResume(granted)
     \/ \E r \in PinchInputs : HandResults(r)

NextAudio == AudioInputs \/ AudioFrameStep

SpecAudio == InitAudio /\ [][NextAudio]_vars

\* ---- claims checked under SpecAudio --------------------------------------
\* C6, as stated: in every frame without a bass kick (bassFactor at most 0.8,
\* or audio inactive) shockwave ends the frame no higher than it began.
C6_OnlyBassRaises ==
  (time > 0 /\ last.quiet) => shockwave <= last.shock0

\* C6, amended: in every frame without a bass kick and without an
\* acquisition event, shockwave ends the frame at 0.95 times its value at
\* the start of the frame, hence no higher than it began.
C6_DecaysUnlessKickOrEvent ==
  (time > 0 /\ last.quiet /\ ~last.fired) =>
    /\ shockwave <= last.shock0
    /\ shockwave = RDiv(last.shock0 * 95, 100)

\* a quiet frame without an event, with audio running and a live shockwave
C6_Witness ==
  /\ time > 0 /\ last.quiet /\ ~last.fired
  /\ isAudioActive /\ last.shock0 > 0 /\ shockwave > 0

\* C10: in every reachable state 0 <= bassFactor <= 1 and
\* 0 <= shockwave <= 2.0.
C10_AudioScalarsBounded ==
  /\ 0 <= bassFactor /\ bassFactor <= UNIT
  /\ 0 <= shockwave /\ shockwave <= 2 * UNIT

\* a bass kick has just raised the shockwave after an acquisition event
C10_Witness ==
  /\ time > 0 /\ ~last.quiet /\ events > 0
  /\ bassFactor > 800 /\ shockwave > DecayShockwave(last.shock0)

\* ---- specification: physics (layouts, early inputs, then frames) --------
InitPhysics == InitWith(Layouts)

\* the inputs of this specification arrive during its first frames
PhysicsInputs ==
  /\ time < MaxInputTime
  /\ \/ ShapeChange("heart")
     \/ \E r \in ZoomInputs : HandResults(r)
     \/ MouseMove(500, 500)   \* the cursor at the centre of the window

PhysicsFrameStep == time < MaxPhysicsFrames /\ Frame(0, CalmDraw)

NextPhysics == PhysicsInputs \/ PhysicsFrameStep

SpecPhysics == InitPhysics /\ [][NextPhysics]_vars

\* ---- claims checked under SpecPhysics ------------------------------------
\* the list of cell c: gridHead[c], then gridNext of each entry, up to -1
RECURSIVE ListFrom(_, _, _)
ListFrom(next, n, fuel) ==
  IF n = 0 - 1 \/ fuel = 0 THEN << >>
  ELSE << n >> \o ListFrom(next, next[n], fuel - 1)

CellList(c) == ListFrom(gridNext, HeadAt(gridHead, c), PARTICLE_COUNT + 1)

Occurrences(list, i) == Cardinality({ k \in DOMAIN list : list[k] = i })

\* the cells some list starts in: every other cell's head is gridHead.fill
UsedCells == DOMAIN gridHead.at

\* C3: at the end of the integrator pass of every frame, each in-domain
\* particle is exactly once in the list of the cell of its position and in
\* no other list, and the lists hold nothing else: no out-of-domain
\* particle, no duplicate, no entry of an earlier frame.
C3_GridInvariant ==
  time > 0 =>
    /\ gridHead.fill = 0 - 1
    /\ \A i \in Particles :
         IF InDomain(last.posInt[i])
         THEN /\ CellIndex(last.posInt[i]) \in UsedCells
              /\ Occurrences(CellList(CellIndex(last.posInt[i])), i) = 1
         ELSE TRUE
    /\ \A c \in UsedCells :
         \A k \in DOMAIN CellList(c) :
           /\ CellList(c)[k] \in Particles
           /\ InDomain(last.posInt[CellList(c)[k]])
           /\ CellIndex(last.posInt[CellList(c)[k]]) = c
           /\ Occurrences(CellList(c), CellList(c)[k]) = 1

\* a frame after which one particle is outside the domain, two share a
\* cell, and one has left the cell it was in
C3_Witness ==
  /\ time > 1
  /\ \E i \in Particles : ~InDomain(last.posInt[i])
  /\ \E c \in UsedCells : Len(CellList(c)) >= 2
  /\ \E i \in Particles :
       /\ InDomain(last.posStart[i]) /\ InDomain(last.posInt[i])
       /\ CellIndex(last.posStart[i]) # CellIndex(last.posInt[i])

\* C4: the walk of every particle visits at most 8 list entries.
C4_BoundedVisits ==
  \A i \in Particles : last.checks[i] <= 8

\* a cell holding more than 8 particles, one of which stopped after 8
C4_Witness ==
  /\ time > 0
  /\ \E c \in UsedCells :
       /\ Len(CellList(c)) > 8
       /\ \E i \in Particles :
            CellIndex(last.posInt[i]) = c /\ last.checks[i] = 8

\* the squared distance of two positions
DistSq(p, q) ==
  (p[1] - q[1]) * (p[1] - q[1]) + (p[2] - q[2]) * (p[2] - q[2])
    + (p[3] - q[3]) * (p[3] - q[3])

\* closer than COLLISION_RADIUS, decided without squaring a large offset
Closer(p, q) ==
  /\ \A k \in 1 .. 3 : Abs(p[k] - q[k]) < COLLISION_RADIUS
  /\ DistSq(p, q) < COLLISION_RADIUS * COLLISION_RADIUS

NoOverlap(p) ==
  \A i \in Particles : \A j \in Particles : i # j => ~Closer(p[i], p[j])

\* C8: if no two particles are closer than COLLISION_RADIUS at the start of
\* the collision pass, the pass leaves every position unchanged.
C8_NoOverlapNoChange ==
  (time > 0 /\ NoOverlap(last.posInt)) => pos = last.posInt

\* a pass without overlap that compared the particles sharing a cell
C8_Witness ==
  /\ time > 0 /\ NoOverlap(last.posInt)
  /\ last.pairs # {}
  /\ pos = last.posInt

\* the sum over the particles of the distance from p[i] to t[i]
RECURSIVE SumDist(_, _, _)
SumDist(p, t, i) ==
  IF i >= PARTICLE_COUNT THEN 0
  ELSE ISqrt(DistSq(p[i], t[i])) + SumDist(p, t, i + 1)

\* the mean distance to the targets fell during the last frame
MeanDistFell == SumDist(pos, last.tgt, 0) < SumDist(last.posStart, last.tgt, 0)

\* C9, as stated: from rest at the origin, under the spring force alone and
\* constant targets, the mean distance to the targets falls in every frame
\* (of the first 40).
C9_MonotoneConvergence ==
  (last.steady >= 1 /\ last.steady <= 40) => MeanDistFell

\* C9, amended: the mean distance falls in each of the first 11 frames.
C9_ConvergesFirstFrames ==
  (last.steady >= 1 /\ last.steady <= 11) => MeanDistFell

\* the eleventh frame of such a run, the targets not at the origin
C9_Witness ==
  /\ last.steady = 11
  /\ SumDist(last.posStart, last.tgt, 0) > 0
  /\ MeanDistFell

\* C11: the shape fields are generated before the first frame and no frame
\* and no shape-switch command changes any entry of any of them.
C11_FieldsNeverChange == [][targets' = targets]_vars

\* frames have run on a field other than the first one, after a switch
C11_Witness ==
  /\ time > 1
  /\ currentShape = "heart" /\ last.shape = "heart"
  /\ \E layout \in Layouts : targets = GenerateShapes(layout)

\* C13 (as claimed): every pair the collision pass compares is a pair of
\* particles that were inserted this frame into the cell whose list is
\* being walked: a particle walks only the list of the cell it is in.
C13_SameCellOnly ==
  time > 0 =>
    \A pr \in last.pairs :
      /\ CellIndex(last.posInt[pr[1]]) = pr[3]
      /\ CellIndex(last.posInt[pr[2]]) = pr[3]

\* the pointer force is in play: another shape than earth, pointer active
PointerActive == last.shape # "earth" /\ last.mouse[1] > 0 - 100 * UNIT

\* particle i began the last frame at planar distance 0 from the
\* interaction point
AtPointer(i) ==
  /\ last.posStart[i][1] = InteractPoint(last.mouse)[1]
  /\ last.posStart[i][2] = InteractPoint(last.mouse)[2]

\* C14 (as claimed): with the pointer force in play, a particle at planar
\* distance 0 from the interaction point receives a pointer force of zero
\* in every axis.
C14_DegenerateSkipped ==
  (time > 0 /\ PointerActive) =>
    \A i \in Particles : AtPointer(i) => last.ptr[i] = Z3

\* the squared planar distance from where particle i began the last frame
\* to the interaction point
PlanarDistSq(i) ==
  LET dx == last.posStart[i][1] - InteractPoint(last.mouse)[1]
      dy == last.posStart[i][2] - InteractPoint(last.mouse)[2]
  IN dx * dx + dy * dy

\* C15: with the shape earth or the pointer at the sentinel (mouse.x <=
\* -100) the pointer force on every particle is zero; a pointer force is
\* nonzero only at planar distance below 12, has magnitude at most 1.2 and
\* has no z component.
C15_PointerGated ==
  time > 0 =>
    \A i \in Particles :
      /\ ~PointerActive => last.ptr[i] = Z3
      /\ last.ptr[i][3] = 0
      /\ last.ptr[i] # Z3 =>
           /\ PlanarDistSq(i) < 144 * UNIT * UNIT
           /\ last.ptr[i][1] * last.ptr[i][1]
                + last.ptr[i][2] * last.ptr[i][2] <= 1200 * 1200

\* a frame in which the pointer pushed one particle and, being 12 or more
\* away, left another alone
C15_Witness ==
  /\ time > 0 /\ PointerActive
  /\ \E i \in Particles : last.ptr[i] # Z3
  /\ \E i \in Particles :
       /\ Abs(last.posStart[i][1] - InteractPoint(last.mouse)[1]) >= 12 * UNIT
       /\ last.ptr[i] = Z3

\* no correction of the last pass moved i or j against a third particle
Alone(i, j) ==
  \A f \in last.fixes :
    \/ { f[1], f[2] } \cap { i, j } = {}
    \/ { f[1], f[2] } = { i, j }

\* C16: two particles at squared distance 0 get no correction from their
\* pair, so both keep their positions, and no correction is computed from
\* a normalisation by zero.
C16_CoincidentSkipped ==
  time > 0 =>
    /\ \A f \in last.fixes : f[3] # << NaN, NaN, NaN >>
    /\ \A i \in Particles : \A j \in Particles :
         (i # j /\ last.posInt[i] = last.posInt[j] /\ Alone(i, j)) =>
           /\ \A f \in last.fixes : { f[1], f[2] } # { i, j }
           /\ pos[i] = last.posInt[i]
           /\ pos[j] = last.posInt[j]

\* two coincident particles of one cell were compared and stayed in place
C16_Witness ==
  /\ time > 0
  /\ \E i \in Particles : \E j \in Particles :
       /\ i # j /\ last.posInt[i] = last.posInt[j]
       /\ \E pr \in last.pairs : pr[1] = i /\ pr[2] = j
       /\ pos[i] = last.posInt[i] /\ pos[j] = last.posInt[j]

\* particle i was outside the domain cube after the last integrator step
OutOfDomain(i) == ~InDomain(last.posInt[i])

\* in the frame just run, the out-of-domain particles were in no list and
\* the collision pass neither compared nor moved them
ExcludedFromPass ==
  time > 0 =>
    \A i \in Particles :
      OutOfDomain(i) =>
        /\ gridNext[i] = 0 - 1
        /\ \A c \in UsedCells : Occurrences(CellList(c), i) = 0
        /\ last.checks[i] = 0
        /\ \A pr \in last.pairs : pr[1] # i /\ pr[2] # i
        /\ \A f \in last.fixes : f[1] # i /\ f[2] # i
        /\ pos[i] = last.posInt[i]
        /\ last.posInt[i] = NextPosition(last.posStart[i], velocities[i])

\* a frame advances the velocity and the position of a particle that is
\* outside the domain cube as of any other
StillIntegrated ==
  time' > time =>
    \A i \in Particles :
      ~InDomain(pos[i]) =>
        /\ velocities'[i] =
             NextVelocity(velocities[i], SpringForce(last'.tgt[i], pos[i]),
                          last'.ptr[i], last'.jit[i])
        /\ last'.posInt[i] = NextPosition(pos[i], velocities'[i])

\* C17: a particle outside the domain cube after the integrator is in no
\* cell list that frame, the collision pass neither displaces it nor uses
\* it to displace another, and the integrator goes on advancing it.
C17_OutOfDomainExcluded == []ExcludedFromPass /\ [][StillIntegrated]_vars

\* a second frame with a moving particle outside the cube while other
\* particles are compared in their cells
C17_Witness ==
  /\ time > 1
  /\ last.pairs # {}
  /\ \E i \in Particles :
       /\ OutOfDomain(i) /\ ~InDomain(last.posStart[i])
       /\ velocities[i] # Z3 /\ pos[i] # last.posStart[i]

\* the sum of component k of the positions p
RECURSIVE SumFrom(_, _, _)
SumFrom(p, k, i) ==
  IF i >= PARTICLE_COUNT THEN 0 ELSE p[i][k] + SumFrom(p, k, i + 1)

\* the collision pass left the sum of the positions and the velocities as
\* the integrator made them
SumConserved ==
  time > 0 =>
    /\ \A k \in 1 .. 3 : SumFrom(pos, k, 0) = SumFrom(last.posInt, k, 0)
    /\ \A i \in Particles :
         last.posInt[i] = NextPosition(last.posStart[i], velocities[i])

\* the correction m[3] is half the penetration along the normal of the
\* offset m[4] the pair had when it was applied
AlongNormal(m) ==
  /\ Overlaps(Dot(m[4], m[4]))
  /\ m[3] = Correction(m[4], Dot(m[4], m[4]))

\* C18: every correction moves the two particles of its pair by equal and
\* opposite displacements of half the penetration along the normal that
\* connects them; the pass keeps the sum of the positions and leaves the
\* velocities alone.
C18_SymmetricCorrection ==
  /\ SumConserved
  /\ time > 0 => \A m \in last.moves : AlongNormal(m)

\* ---- specification: drag (velocities[i] *= 0.92 on its own) -------------
\* The frame of a particle that receives no force: lines 905-907 add zero
\* and lines 909-911 multiply by 0.92.  velocities is a Float32Array; in
\* this specification a velocity component is the decimal float
\* [s, m, e], the number s * m * 10^e with sign s and seven digits m
\* (MantMin <= m < 10 * MantMin), or m = 0 for zero.
MantMin == 1000 * 1000

FloatZero == [ s |-> 1, m |-> 0, e |-> 0 ]

\* a no-op in place of the drag
NoDrag(f) == f

\* f * 0.92, rounded to seven digits
Drag(f) ==
  IF f.m = 0 THEN f
  ELSE IF f.m * 92 >= 100 * MantMin
       THEN [ s |-> f.s, m |-> RDiv(f.m * 92, 100), e |-> f.e ]
       ELSE [ s |-> f.s, m |-> RDiv(f.m * 92, 10), e |-> f.e - 1 ]

\* the start velocity of particle i; particle 0 has << 10, 0, 0 >>
StartVelocity(i) ==
  IF i = 0 THEN << [ s |-> 1, m |-> MantMin, e |-> 0 - 5 ], FloatZero,
                   FloatZero >>
  ELSE << [ s |-> IF i % 2 = 0 THEN 1 ELSE 0 - 1,
            m |-> MantMin + 618033 * i, e |-> (i % 4) - 9 ],
          IF i % 3 = 0 THEN FloatZero
          ELSE [ s |-> 0 - 1, m |-> 10 * MantMin - i, e |-> 0 - 6 ],
          [ s |-> 1, m |-> 3141593, e |-> 0 - 6 - i ] >>

InitDamping ==
  /\ currentShape = "earth"
  /\ targetScale = UNIT
  /\ currentScale = UNIT
  /\ isHandDetected = FALSE
  /\ handLandmarks = << >>
  /\ isPinching = FALSE
  /\ pinchTriggered = FALSE
  /\ mouse = << 0 - 9999 * UNIT, 0 - 9999 * UNIT >>
  /\ isAudioActive = FALSE
  /\ audioPending = 0
  /\ bassFactor = 0
  /\ shockwave = 0
  /\ time = 0
  /\ targets = GenerateShapes(Spread)
  /\ pos = Spread.start
  /\ velocities = [i \in Particles |-> StartVelocity(i)]
  /\ gridHead = [ fill |-> 0, at |-> << >> ]
  /\ gridNext = [i \in Particles |-> 0]
  /\ events = 0
  /\ last = NoFrame

\* one frame's velocity update of every particle, all forces zero
DampStep ==
  /\ time < MaxDampFrames
  /\ time' = time + 1
  /\ velocities' = [i \in Particles |->
                      << Drag(velocities[i][1]), Drag(velocities[i][2]),
                         Drag(velocities[i][3]) >>]
  /\ UNCHANGED << currentShape, targetScale, currentScale, isHandDetected,
                  handLandmarks, isPinching, pinchTriggered, mouse,
                  isAudioActive, audioPending, bassFactor, shockwave,
                  targets, pos, gridHead, gridNext, events, last >>

SpecDamping == InitDamping /\ [][DampStep]_vars

\* ---- claims checked under SpecDamping ------------------------------------
\* |f| < |g| for floats f, g
LessMag(f, g) ==
  /\ g.m # 0
  /\ f.m = 0 \/ f.e < g.e \/ (f.e = g.e /\ f.m < g.m)

\* the magnitude of the vector w is below that of v: no component has
\* grown and one has shrunk
MagnitudeFell(v, w) ==
  /\ \A k \in 1 .. 3 : w[k] = v[k] \/ LessMag(w[k], v[k])
  /\ \E k \in 1 .. 3 : LessMag(w[k], v[k])

NonZero(v) == \E k \in 1 .. 3 : v[k].m # 0

\* |f| < 1e-6
BelowMillionth(f) == f.m = 0 \/ f.e < 0 - 12

StartShock == { 0, 100, 101, UNIT \div 2, 2 * UNIT }
StartBass == { 0, 8 * 100 }
\* mean low-band bytes whose target 204 / 255 is 0.8
QuietLevels == { 0, 204 }

InitQuiet ==
  /\ currentShape = "earth"
  /\ targetScale = UNIT
  /\ currentScale = UNIT
  /\ isHandDetected = FALSE
  /\ handLandmarks = << >>
  /\ isPinching = FALSE
  /\ pinchTriggered = FALSE
  /\ mouse = << 0 - 9999 * UNIT, 0 - 9999 * UNIT >>
  /\ isAudioActive \in BOOLEAN
  /\ audioPending = 0
  /\ bassFactor \in StartBass
  /\ shockwave \in StartShock
  /\ time = 0
  /\ targets = GenerateShapes(Spread)
  /\ pos = Spread.start
  /\ velocities = [i \in Particles |-> Z3]
  /\ gridHead = [ fill |-> 0, at |-> << >> ]
  /\ gridNext = [i \in Particles |-> 0]
  /\ events = 0
  /\ last = NoFrame

QuietFrame ==
  /\ time < MaxQuietFrames
  /\ \E lowAvg \in (IF time < MaxInputTime THEN QuietLevels ELSE { 0 }) :
       Frame(lowAvg, WildDraw)

\* the frame counter of a frame that is due.  A QuietFrame step is a
\* FrameDue step, and FrameDue is enabled exactly when QuietFrame is.
FrameDue == time < MaxQuietFrames /\ time' = time + 1

\* animate() asks for its next call before anything else
\* (requestAnimationFrame, line 749), so a frame that is due is run
SpecQuiet == InitQuiet /\ [][QuietFrame]_vars /\ WF_time(FrameDue)

\* the frames of the run had no bass kick and no acquisition event
NoKickNoEvent == bassFactor <= 8 * 100 /\ events = 0 /\ last.quiet

\* the shockwave is at or below 0.1 and the last frame added no jitter
QuietNow ==
  /\ shockwave <= 100
  /\ \A i \in Particles : last.jit[i] = Z3

\* C19: in frames without a bass kick and without an acquisition event the
\* shockwave falls to 0.1 or below, within 59 frames even from 2.0, and
\* from then on no frame adds an audio jitter to any velocity.
C19_ShockwaveQuiescence ==
  /\ []NoKickNoEvent
  /\ <>[]QuietNow
  /\ [](time >= 59 => QuietNow)
  /\ [][(shockwave <= 100 /\ time' > time) => QuietNow']_vars

\* the 59th frame of a run from 2.0: the shockwave was above 0.1 when the
\* frame began and the frame brought it to 0.1 or below
C19_Witness ==
  /\ time = 59
  /\ last.shock0 > 100
  /\ QuietNow

====
